---- MODULE Spec2Model ----
(***************************************************************************)
(* GameDB (PA1_gamedb): the interactive session loop of command.py, the    *)
(* argument tokens and command handlers of parser_gamedb.py and the        *)
(* lookup helpers of gamedb.py, over the relational store the handlers     *)
(* read and write.  The tables' uniqueness constraints, the view           *)
(* per_game_totals_view (data/init.sql) and the command matcher            *)
(* (parser_base.py) are not part of the sources at hand; they follow the   *)
(* written specification and are marked so where they are defined.         *)
(***************************************************************************)
EXTENDS Integers, Sequences, FiniteSets

VARIABLES
    player,          \* table player(id, name)
    game,            \* table game(id, name)
    victory,         \* table victory(id, game_id, name, points)
    player_game,     \* table player_game(player_id, game_id, ign)
    friendship,      \* table friendship(player_id, friend_id)
    player_victory,  \* table player_victory(player_id, victory_id)
    accepted,        \* history: the keys of the mutating commands that succeeded
    pc,              \* position of main(): "input", "executed", "done", "crashed"
    line,            \* the line read last: command, argument texts, converted ids
    res              \* what that command printed: status and report tables

store == <<player, game, victory, player_game, friendship, player_victory>>
vars == <<player, game, victory, player_game, friendship, player_victory,
          accepted, pc, line, res>>

----------------------------------------------------------------------------
(* Bounds of the model. *)

MaxPlayerId == 2
MaxGameId == 2
MaxVictoryId == 1
MaxRows == 4

\* The input a session may give: the ids, names and points texts its lines
\* draw from, and the number of rows it may store.
Scope == [pids |-> 1..MaxPlayerId, gids |-> 1..MaxGameId,
          vids |-> 1..MaxVictoryId, rows |-> MaxRows,
          pnames |-> {"Ada", "Bob"}, vnames |-> {"Ace"},
          points |-> {<<"1">>, <<"-", "1">>, <<"+", "2">>}]

\* A narrower choice of ids with room for more rows: one player, the same
\* victory id in several games.
CrossPlayerId == 1
CrossGameId == 2
CrossVictoryId == 1
CrossRows == 8

CrossScope == [pids |-> 1..CrossPlayerId, gids |-> 1..CrossGameId,
               vids |-> 1..CrossVictoryId, rows |-> CrossRows,
               pnames |-> {"Ada", "Bob"}, vnames |-> {"Ace", "Win"},
               points |-> {<<"1">>, <<"2">>, <<"-", "1">>, <<"+", "2">>}]

GameNames == {"Chess"}
IgnNames == {"ign"}

----------------------------------------------------------------------------
(* Token grammar: an argument's text is a sequence of characters. *)

Range(s) == {s[i] : i \in DOMAIN s}

DigitChars == <<"0", "1", "2", "3", "4", "5", "6", "7", "8", "9">>

IsDigit(c) == c \in Range(DigitChars)

DigitVal(c) == (CHOOSE i \in DOMAIN DigitChars : DigitChars[i] = c) - 1

Text(n) == <<DigitChars[n + 1]>>

RECURSIVE DecimalValue(_)
DecimalValue(chars) ==
    IF chars = <<>> THEN 0
    ELSE 10 * DecimalValue(SubSeq(chars, 1, Len(chars) - 1))
         + DigitVal(chars[Len(chars)])

\* int(x) of Python for the two kinds of token a parse action is handed: an
\* integer is returned as it is, a string is read as a decimal literal with an
\* optional sign before at least one digit and is a ValueError otherwise.
PyInt(tok) ==
    IF "i" \in DOMAIN tok THEN [err |-> "none", val |-> tok.i]
    ELSE LET chars == tok.s
             signed == chars # <<>> /\ chars[1] \in {"+", "-"}
             digits == IF signed THEN Tail(chars) ELSE chars
         IN  IF digits # <<>> /\ \A k \in DOMAIN digits : IsDigit(digits[k])
             THEN [err |-> "none",
                   val |-> IF signed /\ chars[1] = "-"
                           THEN 0 - DecimalValue(digits) ELSE DecimalValue(digits)]
             ELSE [err |-> "ValueError", val |-> 0]

\* ID_TOK: Word(nums) with the parse action int(l[0]).  The whole argument has
\* to be digits, a character left over being unmatched input.
ID_TOK(text) ==
    IF text # <<>> /\ \A k \in DOMAIN text : IsDigit(text[k])
    THEN PyInt([s |-> text])
    ELSE [err |-> "ParseError", val |-> 0]

\* OPT_SIGN: Optional(Word("+-", exact=1)): the tokens it yields and the rest.
OPT_SIGN(text) ==
    IF text # <<>> /\ text[1] \in {"+", "-"}
    THEN [toks |-> <<[s |-> <<text[1]>>]>>, rest |-> Tail(text)]
    ELSE [toks |-> <<>>, rest |-> text]

\* INT_TOK: (OPT_SIGN + ID_TOK) with the parse action int(l[0]) applied to the
\* token list of the whole sequence: the sign, when there is one, comes first.
INT_TOK(text) ==
    LET sign == OPT_SIGN(text)
        num == ID_TOK(sign.rest)
    IN  IF num.err # "none" THEN num
        ELSE LET l == sign.toks \o <<[i |-> num.val]>>
             IN  PyInt(l[1])

\* NAME_TOK: QuotedString('"'): the text between the quotes, verbatim.
NAME_TOK(text) == [err |-> "none", val |-> text]

IdTexts(ids) == {Text(n) : n \in ids}

----------------------------------------------------------------------------
(* The store: lookups of gamedb.py and the tables' constraints. *)

\* The number of rows stored, which the scope of a session caps.
Rows == Cardinality(player) + Cardinality(game) + Cardinality(victory)
        + Cardinality(player_game) + Cardinality(friendship)
        + Cardinality(player_victory)

NoName == "<None>"

get_game_name(game_id) ==
    IF \E g \in game : g.id = game_id
    THEN (CHOOSE g \in game : g.id = game_id).name ELSE NoName

get_player_name(player_id) ==
    IF \E p \in player : p.id = player_id
    THEN (CHOOSE p \in player : p.id = player_id).name ELSE NoName

\* Mutant: the lookup leaves the game out of the WHERE clause.
get_victory_name_any(victory_id, game_id) ==
    IF \E v \in victory : v.id = victory_id
    THEN (CHOOSE v \in victory : v.id = victory_id).name
    ELSE NoName

get_victory_name(victory_id, game_id) ==
    IF \E v \in victory : v.id = victory_id /\ v.game_id = game_id
    THEN (CHOOSE v \in victory : v.id = victory_id /\ v.game_id = game_id).name
    ELSE NoName

\* The constraints an INSERT can violate (sqlite3.IntegrityError): the keys
\* and foreign keys of data/init.sql, as the written specification gives them.
PlayerConflict(row) == \E p \in player : p.id = row.id

GameConflict(row) == \E g \in game : g.id = row.id

VictoryConflict(row) ==
    \/ \E v \in victory : v.id = row.id /\ v.game_id = row.game_id
    \/ ~ \E g \in game : g.id = row.game_id

PlayerGameConflict(row) ==
    \/ \E pg \in player_game :
          pg.player_id = row.player_id /\ pg.game_id = row.game_id
    \/ ~ \E p \in player : p.id = row.player_id
    \/ ~ \E g \in game : g.id = row.game_id

FriendshipConflict(row) ==
    \/ row \in friendship
    \/ ~ \E p \in player : p.id = row.player_id
    \/ ~ \E p \in player : p.id = row.friend_id

PlayerVictoryConflict(row) ==
    \/ row \in player_victory
    \/ ~ \E p \in player : p.id = row.player_id

----------------------------------------------------------------------------
(* What a command prints: a status and, for a report, its tables. *)

Output(status, rows, rows2, num) ==
    [status |-> status, rows |-> rows, rows2 |-> rows2, num |-> num]

Say(status) == res' = Output(status, <<>>, <<>>, 0)

StoreUnchanged ==
    UNCHANGED <<player, game, victory, player_game, friendship, player_victory>>

----------------------------------------------------------------------------
(* The mutating commands of parser_gamedb.py. *)

\* Mutant: INSERT OR REPLACE, which overwrites the row and reports success.
cmd_add_player_replace(player_id, player_name) ==
    LET row == [id |-> player_id, name |-> player_name]
    IN  /\ player' = {p \in player : p.id # player_id} \cup {row}
        /\ accepted' = accepted \cup {<<"AddPlayer", player_id>>}
        /\ Say("ok")
        /\ UNCHANGED <<game, victory, player_game, friendship, player_victory>>

cmd_add_player(player_id, player_name) ==
    LET row == [id |-> player_id, name |-> player_name]
    IN  IF PlayerConflict(row)
        THEN Say("Duplicate") /\ StoreUnchanged /\ UNCHANGED accepted
        ELSE /\ player' = player \cup {row}
             /\ accepted' = accepted \cup {<<"AddPlayer", player_id>>}
             /\ Say("ok")
             /\ UNCHANGED <<game, victory, player_game, friendship, player_victory>>

cmd_add_game(game_id, game_name) ==
    LET row == [id |-> game_id, name |-> game_name]
    IN  IF GameConflict(row)
        THEN Say("Duplicate") /\ StoreUnchanged /\ UNCHANGED accepted
        ELSE /\ game' = game \cup {row}
             /\ accepted' = accepted \cup {<<"AddGame", game_id>>}
             /\ Say("ok")
             /\ UNCHANGED <<player, victory, player_game, friendship, player_victory>>

\* Mutant: a victory id already used by any game is refused.
cmd_add_victory_global(game_id, victory_id, victory_name, points) ==
    LET row == [id |-> victory_id, game_id |-> game_id,
                name |-> victory_name, points |-> points]
    IN  IF get_game_name(game_id) = NoName
        THEN Say("NotFound") /\ StoreUnchanged /\ UNCHANGED accepted
        ELSE IF VictoryConflict(row) \/ \E v \in victory : v.id = victory_id
        THEN Say("Duplicate") /\ StoreUnchanged /\ UNCHANGED accepted
        ELSE /\ victory' = victory \cup {row}
             /\ accepted' = accepted \cup {<<"AddVictory", game_id, victory_id>>}
             /\ Say("ok")
             /\ UNCHANGED <<player, game, player_game, friendship, player_victory>>

cmd_add_victory(game_id, victory_id, victory_name, points) ==
    LET row == [id |-> victory_id, game_id |-> game_id,
                name |-> victory_name, points |-> points]
    IN  IF get_game_name(game_id) = NoName
        THEN Say("NotFound") /\ StoreUnchanged /\ UNCHANGED accepted
        ELSE IF VictoryConflict(row)
        THEN Say("Duplicate") /\ StoreUnchanged /\ UNCHANGED accepted
        ELSE /\ victory' = victory \cup {row}
             /\ accepted' = accepted \cup {<<"AddVictory", game_id, victory_id>>}
             /\ Say("ok")
             /\ UNCHANGED <<player, game, player_game, friendship, player_victory>>

cmd_plays(player_id, game_id, player_ign) ==
    LET row == [player_id |-> player_id, game_id |-> game_id, ign |-> player_ign]
    IN  IF get_player_name(player_id) = NoName \/ get_game_name(game_id) = NoName
        THEN Say("NotFound") /\ StoreUnchanged /\ UNCHANGED accepted
        ELSE IF PlayerGameConflict(row)
        THEN Say("Duplicate") /\ StoreUnchanged /\ UNCHANGED accepted
        ELSE /\ player_game' = player_game \cup {row}
             /\ accepted' = accepted \cup {<<"Plays", player_id, game_id>>}
             /\ Say("ok")
             /\ UNCHANGED <<player, game, victory, friendship, player_victory>>

cmd_add_friends(player1_id, player2_id) ==
    LET row == [player_id |-> player1_id, friend_id |-> player2_id]
    IN  IF get_player_name(player1_id) = NoName \/ get_player_name(player2_id) = NoName
        THEN Say("NotFound") /\ StoreUnchanged /\ UNCHANGED accepted
        ELSE IF FriendshipConflict(row)
        THEN Say("Duplicate") /\ StoreUnchanged /\ UNCHANGED accepted
        ELSE /\ friendship' = friendship \cup {row}
             /\ accepted' = accepted \cup {<<"AddFriends", player1_id, player2_id>>}
             /\ Say("ok")
             /\ UNCHANGED <<player, game, victory, player_game, player_victory>>

\* Mutant: the handler does not look the victory up before the INSERT.
cmd_win_victory_unchecked(player_id, game_id, victory_id) ==
    LET row == [player_id |-> player_id, victory_id |-> victory_id]
    IN  IF get_player_name(player_id) = NoName
        THEN Say("NotFound") /\ StoreUnchanged /\ UNCHANGED accepted
        ELSE IF PlayerVictoryConflict(row)
        THEN Say("Duplicate") /\ StoreUnchanged /\ UNCHANGED accepted
        ELSE /\ player_victory' = player_victory \cup {row}
             /\ accepted' = accepted
                    \cup {<<"WinVictory", player_id, game_id, victory_id>>}
             /\ Say("ok")
             /\ UNCHANGED <<player, game, victory, player_game, friendship>>

cmd_win_victory(player_id, game_id, victory_id) ==
    LET row == [player_id |-> player_id, victory_id |-> victory_id]
    IN  IF \/ get_player_name(player_id) = NoName
           \/ get_victory_name(victory_id, game_id) = NoName
        THEN Say("NotFound") /\ StoreUnchanged /\ UNCHANGED accepted
        ELSE IF PlayerVictoryConflict(row)
        THEN Say("Duplicate") /\ StoreUnchanged /\ UNCHANGED accepted
        ELSE /\ player_victory' = player_victory \cup {row}
             /\ accepted' = accepted
                    \cup {<<"WinVictory", player_id, game_id, victory_id>>}
             /\ Say("ok")
             /\ UNCHANGED <<player, game, victory, player_game, friendship>>

----------------------------------------------------------------------------
(* Relational helpers for the report queries. *)

RECURSIVE SumPoints(_)
SumPoints(vs) ==
    IF vs = {} THEN 0
    ELSE LET v == CHOOSE x \in vs : TRUE
         IN  v.points + SumPoints(vs \ {v})

RECURSIVE SumScores(_)
SumScores(ts) ==
    IF ts = {} THEN 0
    ELSE LET t == CHOOSE x \in ts : TRUE
         IN  t.game_score + SumScores(ts \ {t})

RECURSIVE SumColumn(_, _)
SumColumn(rows, col) ==
    IF rows = <<>> THEN 0
    ELSE rows[1][col] + SumColumn(Tail(rows), col)

\* The orders in which a query may return the rows S under ORDER BY, given as
\* the pairs <<a, b>> in which a has to precede b: every arrangement in which
\* no row stands after one it has to precede.  Rows the ORDER BY does not
\* separate come in any order.
SortedSeqs(S, before) ==
    LET n == Cardinality(S)
    IN  {s \in [1..n -> S] :
            /\ \A i, j \in 1..n : i # j => s[i] # s[j]
            /\ \A i, j \in 1..n : i < j => <<s[j], s[i]>> \notin before}

\* The pairs of rows of S, for an ORDER BY to choose from.
Pairs(S) == S \X S

\* Text comparison of the names in use (SQLite's BINARY collation).
NameOrder == <<"Ace", "Ada", "Bob", "Chess", "Win", "ign">>

NameRank(name) == CHOOSE i \in DOMAIN NameOrder : NameOrder[i] = name

\* The victories of a game the store counts as earned by a player: those whose
\* id stands with the player in player_victory.
EarnedIn(player_id, game_id) ==
    {v \in victory :
        /\ v.game_id = game_id
        /\ [player_id |-> player_id, victory_id |-> v.id] \in player_victory}

\* per_game_totals_view(player_id, game_id, game_score, n_earned_victories)
\* of data/init.sql, as the written specification gives it: one row for every
\* library entry, the score defaulting to 0.
per_game_totals_view ==
    {[player_id |-> pg.player_id, game_id |-> pg.game_id,
      game_score |-> SumPoints(EarnedIn(pg.player_id, pg.game_id)),
      n_earned_victories |-> Cardinality(EarnedIn(pg.player_id, pg.game_id))]
     : pg \in player_game}

Report(rows, rows2, num) ==
    /\ res' = Output("report", rows, rows2, num)
    /\ StoreUnchanged
    /\ UNCHANGED accepted

NotFound == Say("NotFound") /\ StoreUnchanged /\ UNCHANGED accepted

----------------------------------------------------------------------------
(* The report commands of parser_gamedb.py. *)

FriendsWhoPlayJoin(player_id, game_id) ==
    {j \in friendship \X player \X per_game_totals_view :
        /\ j[2].id = j[1].friend_id
        /\ j[3].player_id = j[1].friend_id
        /\ j[1].player_id = player_id
        /\ j[3].game_id = game_id}

cmd_friends_who_play(player_id, game_id) ==
    IF get_player_name(player_id) = NoName \/ get_game_name(game_id) = NoName
    THEN NotFound
    ELSE \E s \in SortedSeqs(FriendsWhoPlayJoin(player_id, game_id),
                             {o \in Pairs(FriendsWhoPlayJoin(player_id, game_id)) :
                                 o[1][3].game_score > o[2][3].game_score}) :
            Report([i \in DOMAIN s |-> <<s[i][2].name, s[i][3].game_score>>], <<>>, 0)

ComparePlayersTotals(player1_id, player2_id, game_id) ==
    {j \in per_game_totals_view \X player :
        /\ j[2].id = j[1].player_id
        /\ j[1].game_id = game_id
        /\ j[2].id \in {player1_id, player2_id}}

ComparePlayersVictories(game_id) == {v \in victory : v.game_id = game_id}

\* CASE WHEN pv.victory_id IS NULL THEN 'N' ELSE 'Y' END of the LEFT JOIN
\* player_victory pv ON pv.victory_id = v.id AND pv.player_id = ?
EarnedFlag(player_id, v) ==
    IF \E pv \in player_victory : pv.victory_id = v.id /\ pv.player_id = player_id
    THEN "Y" ELSE "N"

cmd_compare_players(player1_id, player2_id, game_id) ==
    IF \/ get_player_name(player1_id) = NoName
       \/ get_player_name(player2_id) = NoName
       \/ get_game_name(game_id) = NoName
    THEN NotFound
    ELSE \E t \in SortedSeqs(ComparePlayersTotals(player1_id, player2_id, game_id),
                             {o \in Pairs(ComparePlayersTotals(player1_id, player2_id,
                                                               game_id)) :
                                 o[1][2].id = player1_id /\ o[2][2].id # player1_id}) :
         \E s \in SortedSeqs(ComparePlayersVictories(game_id),
                             {o \in Pairs(ComparePlayersVictories(game_id)) :
                                 \/ NameRank(o[1].name) < NameRank(o[2].name)
                                 \/ o[1].name = o[2].name /\ o[1].points > o[2].points}) :
            Report([i \in DOMAIN t |-> <<t[i][2].name, t[i][1].game_score>>],
                   [i \in DOMAIN s |->
                       <<s[i].name, s[i].points,
                         EarnedFlag(player1_id, s[i]), EarnedFlag(player2_id, s[i])>>],
                   0)

SummarizePlayerFriends(player_id) ==
    {j \in friendship \X player :
        j[2].id = j[1].friend_id /\ j[1].player_id = player_id}

\* SUM(COALESCE(pgtv.game_score, 0)) over the view's rows of one friend.
FriendScore(friend_id) ==
    SumScores({t \in per_game_totals_view : t.player_id = friend_id})

\* SELECT game_id, COUNT(*) AS vcount FROM victory GROUP BY game_id: a game
\* with no victory has no row here.
game_sum ==
    {[game_id |-> g, vcount |-> Cardinality({v \in victory : v.game_id = g})]
     : g \in {v.game_id : v \in victory}}

SummarizePlayerGames(player_id) ==
    {j \in per_game_totals_view \X game \X player_game \X game_sum :
        /\ j[2].id = j[1].game_id
        /\ j[3].player_id = j[1].player_id /\ j[3].game_id = j[1].game_id
        /\ j[2].id = j[4].game_id
        /\ j[1].player_id = player_id}

cmd_summarize_player(player_id) ==
    IF get_player_name(player_id) = NoName
    THEN NotFound
    ELSE \E f \in SortedSeqs(SummarizePlayerFriends(player_id),
                             {o \in Pairs(SummarizePlayerFriends(player_id)) :
                                 FriendScore(o[1][2].id) > FriendScore(o[2][2].id)}) :
         \E g \in SortedSeqs(SummarizePlayerGames(player_id),
                             {o \in Pairs(SummarizePlayerGames(player_id)) :
                                 o[1][1].game_score > o[2][1].game_score}) :
            LET games == [i \in DOMAIN g |->
                            <<g[i][2].name,
                              <<g[i][1].n_earned_victories, g[i][4].vcount>>,
                              g[i][1].game_score,
                              g[i][3].ign>>]
            IN  Report([i \in DOMAIN f |-> <<f[i][2].name, FriendScore(f[i][2].id)>>],
                       games,
                       SumColumn(games, 3))

\* COUNT(pv.victory_id) of victory v LEFT JOIN player_victory pv
\* ON pv.victory_id = v.id, grouped by v.id among the game's victories.
EarnedCount(v) == Cardinality({pv \in player_victory : pv.victory_id = v.id})

SummarizeGameVictories(game_id) == {v \in victory : v.game_id = game_id}

SummarizeGamePlayers(game_id) ==
    {j \in per_game_totals_view \X player :
        j[2].id = j[1].player_id /\ j[1].game_id = game_id}

cmd_summarize_game(game_id) ==
    IF get_game_name(game_id) = NoName
    THEN NotFound
    ELSE \E v \in SortedSeqs(SummarizeGameVictories(game_id),
                             {o \in Pairs(SummarizeGameVictories(game_id)) :
                                 \/ o[1].points > o[2].points
                                 \/ o[1].points = o[2].points
                                    /\ NameRank(o[1].name) < NameRank(o[2].name)}) :
         \E q \in SortedSeqs(SummarizeGamePlayers(game_id),
                             {o \in Pairs(SummarizeGamePlayers(game_id)) :
                                 \/ o[1][1].game_score > o[2][1].game_score
                                 \/ o[1][1].game_score = o[2][1].game_score
                                    /\ NameRank(o[1][2].name) < NameRank(o[2][2].name)}) :
            LET num_players == Len(q)
                num_victories == Len(v)
            IN  Report([i \in DOMAIN v |->
                           <<v[i].name, v[i].points, <<EarnedCount(v[i]), num_players>>>>],
                       [i \in DOMAIN q |->
                           <<q[i][2].name, q[i][1].game_score,
                             <<q[i][1].n_earned_victories, num_victories>>>>],
                       0)

SummarizeVictoryRows(victory_id) ==
    {j \in player_victory \X player :
        j[2].id = j[1].player_id /\ j[1].victory_id = victory_id}

\* round(100 * n / total, 2), in hundredths of a percent.
PercentEarned(n, total) == (20000 * n + total) \div (2 * total)

cmd_summarize_victory(game_id, victory_id) ==
    IF get_game_name(game_id) = NoName \/ get_victory_name(victory_id, game_id) = NoName
    THEN NotFound
    ELSE LET total_players ==
                 Cardinality({pg \in player_game : pg.game_id = game_id})
         IN  \E r \in SortedSeqs(SummarizeVictoryRows(victory_id), {}) :
                IF total_players = 0
                THEN Say("ZeroDivisionError") /\ StoreUnchanged /\ UNCHANGED accepted
                ELSE Report([i \in DOMAIN r |-> <<r[i][2].name>>], <<>>,
                            PercentEarned(Len(r), total_players))

\* The groups of GROUP BY pgtv.player_id over player LEFT JOIN the view: one
\* for each player the view has rows of, and a single one, of key NULL, for
\* all the players it has none of.
NullGroup == 0

ViewRowsOf(player_id) == {t \in per_game_totals_view : t.player_id = player_id}

RankingGroups ==
    {p.id : p \in {x \in player : ViewRowsOf(x.id) # {}}}
    \cup (IF \E p \in player : ViewRowsOf(p.id) = {} THEN {NullGroup} ELSE {})

\* The rows a group may come out as: p.name and game_score are bare columns,
\* read from any one row of the group; NULL sorts last under DESC.
RankingRows(k) ==
    IF k = NullGroup
    THEN {[name |-> p.name, total |-> 0, isnull |-> TRUE, key |-> 0]
          : p \in {x \in player : ViewRowsOf(x.id) = {}}}
    ELSE {[name |-> get_player_name(k), total |-> SumScores(ViewRowsOf(k)),
           isnull |-> FALSE, key |-> t.game_score] : t \in ViewRowsOf(k)}

cmd_victory_ranking ==
    \E c \in [RankingGroups -> UNION {RankingRows(k) : k \in RankingGroups}] :
        /\ \A k \in RankingGroups : c[k] \in RankingRows(k)
        /\ \E s \in SortedSeqs(RankingGroups,
                               {o \in Pairs(RankingGroups) :
                                   /\ ~ c[o[1]].isnull
                                   /\ (c[o[2]].isnull \/ c[o[1]].key > c[o[2]].key)}) :
              Report([i \in DOMAIN s |-> <<c[s[i]].name, c[s[i]].total>>], <<>>, 0)

----------------------------------------------------------------------------
(* The command registry, the dispatcher and the session loop. *)

\* decorate_command(name, arg=TOKEN, ...): each command's arguments in order.
Signature ==
    [AddPlayer |-> <<"ID", "NAME">>,
     AddGame |-> <<"ID", "NAME">>,
     AddVictory |-> <<"ID", "ID", "NAME", "INT">>,
     Plays |-> <<"ID", "ID", "NAME">>,
     AddFriends |-> <<"ID", "ID">>,
     WinVictory |-> <<"ID", "ID", "ID">>,
     FriendsWhoPlay |-> <<"ID", "ID">>,
     ComparePlayers |-> <<"ID", "ID", "ID">>,
     SummarizePlayer |-> <<"ID">>,
     SummarizeGame |-> <<"ID">>,
     SummarizeVictory |-> <<"ID", "ID">>,
     VictoryRanking |-> <<>>]

Token(kind, text) ==
    CASE kind = "ID" -> ID_TOK(text)
      [] kind = "INT" -> INT_TOK(text)
      [] kind = "NAME" -> NAME_TOK(text)

handler(cmd, a) ==
    CASE cmd = "AddPlayer" -> cmd_add_player(a[1], a[2])
      [] cmd = "AddGame" -> cmd_add_game(a[1], a[2])
      [] cmd = "AddVictory" -> cmd_add_victory(a[1], a[2], a[3], a[4])
      [] cmd = "Plays" -> cmd_plays(a[1], a[2], a[3])
      [] cmd = "AddFriends" -> cmd_add_friends(a[1], a[2])
      [] cmd = "WinVictory" -> cmd_win_victory(a[1], a[2], a[3])
      [] cmd = "FriendsWhoPlay" -> cmd_friends_who_play(a[1], a[2])
      [] cmd = "ComparePlayers" -> cmd_compare_players(a[1], a[2], a[3])
      [] cmd = "SummarizePlayer" -> cmd_summarize_player(a[1])
      [] cmd = "SummarizeGame" -> cmd_summarize_game(a[1])
      [] cmd = "SummarizeVictory" -> cmd_summarize_victory(a[1], a[2])
      [] cmd = "VictoryRanking" -> cmd_victory_ranking

Rejected(cmd, texts, status) ==
    /\ Say(status)
    /\ line' = [cmd |-> cmd, texts |-> texts, ids |-> <<>>]
    /\ StoreUnchanged
    /\ UNCHANGED accepted

\* CommandParser.parse(line) of parser_base.py, as the written specification
\* gives it: match the command and its arguments, convert
\* each argument by its token's parse action, call the handler.  An argument
\* that does not match is a ParseException; an exception a parse action or a
\* handler raises is not caught here.
parse(cmd, texts) ==
    IF cmd \notin DOMAIN Signature \/ Len(texts) # Len(Signature[cmd])
    THEN Rejected(cmd, texts, "ParseError")
    ELSE LET conv == [i \in DOMAIN texts |-> Token(Signature[cmd][i], texts[i])]
             bad == {i \in DOMAIN texts : conv[i].err # "none"}
             first == CHOOSE i \in bad : \A k \in bad : i <= k
         IN  IF bad # {}
             THEN Rejected(cmd, texts, conv[first].err)
             ELSE /\ handler(cmd, [i \in DOMAIN texts |-> conv[i].val])
                  /\ line' = [cmd |-> cmd, texts |-> texts,
                              ids |-> [i \in {k \in DOMAIN texts :
                                                 Signature[cmd][k] = "ID"}
                                       |-> conv[i].val]]

\* The exceptions main() does not catch: it catches pp.ParseBaseException only.
Uncaught == {"ValueError", "ZeroDivisionError"}

NoLine == [cmd |-> "", texts |-> <<>>, ids |-> <<>>]

NoOutput == Output("none", <<>>, <<>>, 0)

\* The body of main()'s while loop on a line that is not empty, read at
\* pc = "input".
ReadLine(sc, cmd, texts) ==
    /\ parse(cmd, texts)
    /\ Rows' <= sc.rows
    /\ pc' = IF res'.status \in Uncaught THEN "crashed" ELSE "executed"

Init ==
    /\ player = {}
    /\ game = {}
    /\ victory = {}
    /\ player_game = {}
    /\ friendship = {}
    /\ player_victory = {}
    /\ accepted = {}
    /\ pc = "input"
    /\ line = NoLine
    /\ res = NoOutput

AddPlayer(sc) ==
    /\ pc = "input"
    /\ \E p \in IdTexts(sc.pids), n \in sc.pnames : ReadLine(sc, "AddPlayer", <<p, n>>)

AddGame(sc) ==
    /\ pc = "input"
    /\ \E g \in IdTexts(sc.gids), n \in GameNames : ReadLine(sc, "AddGame", <<g, n>>)

AddVictory(sc) ==
    /\ pc = "input"
    /\ \E g \in IdTexts(sc.gids), v \in IdTexts(sc.vids),
          n \in sc.vnames, pts \in sc.points :
           ReadLine(sc, "AddVictory", <<g, v, n, pts>>)

Plays(sc) ==
    /\ pc = "input"
    /\ \E p \in IdTexts(sc.pids), g \in IdTexts(sc.gids), n \in IgnNames :
           ReadLine(sc, "Plays", <<p, g, n>>)

AddFriends(sc) ==
    /\ pc = "input"
    /\ \E p \in IdTexts(sc.pids), q \in IdTexts(sc.pids) :
           ReadLine(sc, "AddFriends", <<p, q>>)

WinVictory(sc) ==
    /\ pc = "input"
    /\ \E p \in IdTexts(sc.pids), g \in IdTexts(sc.gids), v \in IdTexts(sc.vids) :
           ReadLine(sc, "WinVictory", <<p, g, v>>)

FriendsWhoPlay(sc) ==
    /\ pc = "input"
    /\ \E p \in IdTexts(sc.pids), g \in IdTexts(sc.gids) :
           ReadLine(sc, "FriendsWhoPlay", <<p, g>>)

ComparePlayers(sc) ==
    /\ pc = "input"
    /\ \E p \in IdTexts(sc.pids), q \in IdTexts(sc.pids), g \in IdTexts(sc.gids) :
           ReadLine(sc, "ComparePlayers", <<p, q, g>>)

SummarizePlayer(sc) ==
    /\ pc = "input"
    /\ \E p \in IdTexts(sc.pids) : ReadLine(sc, "SummarizePlayer", <<p>>)

SummarizeGame(sc) ==
    /\ pc = "input"
    /\ \E g \in IdTexts(sc.gids) : ReadLine(sc, "SummarizeGame", <<g>>)

SummarizeVictory(sc) ==
    /\ pc = "input"
    /\ \E g \in IdTexts(sc.gids), v \in IdTexts(sc.vids) :
           ReadLine(sc, "SummarizeVictory", <<g, v>>)

VictoryRanking(sc) ==
    /\ pc = "input"
    /\ ReadLine(sc, "VictoryRanking", <<>>)

\* Lines the matcher refuses: a command that is not registered, and the
\* written specification's AddPlayer -1 "X" (an unsigned integer is required).
UnknownCommand(sc) ==
    /\ pc = "input"
    /\ ReadLine(sc, "Bogus", <<>>)

BadArgument(sc) ==
    /\ pc = "input"
    /\ \E n \in sc.pnames : ReadLine(sc, "AddPlayer", <<<<"-", "1">>, n>>)

\* "if line:" -- a line that is empty once stripped runs nothing.
EmptyLine ==
    /\ pc = "input"
    /\ pc' = "executed"
    /\ line' = NoLine
    /\ res' = NoOutput
    /\ StoreUnchanged
    /\ UNCHANGED accepted

\* while True: back to input(prompt) for the next line.
Prompt ==
    /\ pc = "executed"
    /\ pc' = "input"
    /\ line' = NoLine
    /\ res' = NoOutput
    /\ StoreUnchanged
    /\ UNCHANGED accepted

\* input() raises EOFError: break.
EndOfInput ==
    /\ pc = "input"
    /\ pc' = "done"
    /\ UNCHANGED <<line, res>>
    /\ StoreUnchanged
    /\ UNCHANGED accepted

Next ==
    \/ AddPlayer(Scope)
    \/ AddGame(Scope)
    \/ AddVictory(Scope)
    \/ Plays(Scope)
    \/ AddFriends(Scope)
    \/ WinVictory(Scope)
    \/ FriendsWhoPlay(Scope)
    \/ ComparePlayers(Scope)
    \/ SummarizePlayer(Scope)
    \/ SummarizeGame(Scope)
    \/ SummarizeVictory(Scope)
    \/ VictoryRanking(Scope)
    \/ UnknownCommand(Scope)
    \/ BadArgument(Scope)
    \/ EmptyLine
    \/ Prompt
    \/ EndOfInput

NextCross ==
    \/ AddPlayer(CrossScope)
    \/ AddGame(CrossScope)
    \/ AddVictory(CrossScope)
    \/ Plays(CrossScope)
    \/ AddFriends(CrossScope)
    \/ WinVictory(CrossScope)
    \/ FriendsWhoPlay(CrossScope)
    \/ ComparePlayers(CrossScope)
    \/ SummarizePlayer(CrossScope)
    \/ SummarizeGame(CrossScope)
    \/ SummarizeVictory(CrossScope)
    \/ VictoryRanking(CrossScope)
    \/ UnknownCommand(CrossScope)
    \/ BadArgument(CrossScope)
    \/ EmptyLine
    \/ Prompt
    \/ EndOfInput

Spec == Init /\ [][Next]_vars

SpecCross == Init /\ [][NextCross]_vars

----------------------------------------------------------------------------
(* Properties. *)

Mutators == {"AddPlayer", "AddGame", "AddVictory", "Plays", "AddFriends", "WinVictory"}

\* The key of a command that reached its handler: its name and its ids.
CommandKey(l) == <<l.cmd>> \o l.ids

Reached(l, cmd) == l.cmd = cmd /\ l.ids # <<>>

HasPlayer(p) == \E x \in player : x.id = p
HasGame(g) == \E x \in game : x.id = g
HasVictory(g, v) == \E x \in victory : x.game_id = g /\ x.id = v
HasLibrary(p, g) == \E x \in player_game : x.player_id = p /\ x.game_id = g

\* rows holds exactly one row RowOf(x) for every x of S.
RowsMatch(rows, S, RowOf(_)) ==
    /\ Len(rows) = Cardinality(S)
    /\ \E f \in [DOMAIN rows -> S] :
          /\ \A i, j \in DOMAIN rows : i # j => f[i] # f[j]
          /\ \A i \in DOMAIN rows : rows[i] = RowOf(f[i])

\* C1: a mutating command that has succeeded once is, when issued again with
\* the same key, rejected as a duplicate, and the store is left as it was.
C1_RepeatIsDuplicate ==
    [][(line'.cmd \in Mutators /\ line'.ids # <<>> /\ CommandKey(line') \in accepted)
        => (res'.status = "Duplicate" /\ store' = store /\ pc' = "executed")]_vars

C1_Witness ==
    /\ pc = "executed"
    /\ line.cmd = "WinVictory"
    /\ res.status = "Duplicate"
    /\ CommandKey(line) \in accepted

\* The parent a command names is missing from the store.
MissingParent(l) ==
    \/ Reached(l, "AddVictory") /\ ~ HasGame(l.ids[1])
    \/ Reached(l, "Plays") /\ (~ HasPlayer(l.ids[1]) \/ ~ HasGame(l.ids[2]))
    \/ Reached(l, "WinVictory")
       /\ (~ HasPlayer(l.ids[1]) \/ ~ HasVictory(l.ids[2], l.ids[3]))

\* C2: AddVictory naming a missing game, Plays naming a missing player or game
\* and WinVictory naming a missing player or a victory missing from the stated
\* game report not-found and leave the store unchanged.
C2_MissingParentNotFound ==
    [][MissingParent(line')
        => (res'.status = "NotFound" /\ store' = store /\ pc' = "executed")]_vars

C2_Witness ==
    /\ pc = "executed"
    /\ Reached(line, "WinVictory")
    /\ res.status = "NotFound"
    /\ HasPlayer(line.ids[1])
    /\ ~ HasVictory(line.ids[2], line.ids[3])
    /\ \E v \in victory : v.id = line.ids[3]

\* The total of a player: the points of the victories player_victory holds
\* for the player.
StoredTotal(p) ==
    SumPoints({v \in victory :
                 [player_id |-> p, victory_id |-> v.id] \in player_victory})

\* C3: VictoryRanking prints exactly one row for every player, with the
\* player's total, a player with no achievements appearing with 0.
C3_RankingRowPerPlayer ==
    (pc = "executed" /\ line.cmd = "VictoryRanking" /\ res.status = "report")
        => RowsMatch(res.rows, player, LAMBDA p : <<p.name, StoredTotal(p.id)>>)

\* C4: SummarizeVictory of an existing victory of a game nobody has in their
\* library completes (a message or a 0% report) and the session goes on.
C4_DivisionByZeroHandled ==
    (/\ Reached(line, "SummarizeVictory")
     /\ HasVictory(line.ids[1], line.ids[2])
     /\ ~ \E pg \in player_game : pg.game_id = line.ids[1])
        => (pc = "executed" /\ res.status \in {"report", "NotFound"})

\* The per-game score of a player: the points of the victories of that game
\* the player has won by a WinVictory that succeeded.
EarnedScore(p, g) ==
    SumPoints({v \in victory :
                 v.game_id = g /\ <<"WinVictory", p, g, v.id>> \in accepted})

\* C5: FriendsWhoPlay P G lists exactly the friends on P's outgoing edges who
\* have G in their library, each with the friend's per-game score for G (0
\* without achievements), in descending score order.
C5_FriendsWhoPlayRows ==
    (pc = "executed" /\ Reached(line, "FriendsWhoPlay") /\ res.status = "report")
        => /\ RowsMatch(res.rows,
                        {f \in player :
                            /\ [player_id |-> line.ids[1], friend_id |-> f.id]
                                   \in friendship
                            /\ HasLibrary(f.id, line.ids[2])},
                        LAMBDA f : <<f.name, EarnedScore(f.id, line.ids[2])>>)
           /\ \A i, j \in DOMAIN res.rows : i < j => res.rows[i][2] >= res.rows[j][2]

\* Some row of a table names the player.
Listed(rows, name) == \E i \in DOMAIN rows : rows[i][1] = name

Befriended(a, b) ==
    <<"AddFriends", a, b>> \in accepted \/ <<"AddFriends", b, a>> \in accepted

\* C6: friends are mutual: once AddFriends A B has succeeded, A is listed
\* among B's friends by SummarizePlayer B and (having the game) by
\* FriendsWhoPlay B, as B is among A's.
C6_FriendsAreMutual ==
    /\ (pc = "executed" /\ Reached(line, "SummarizePlayer") /\ res.status = "report")
          => \A a \in player :
                Befriended(a.id, line.ids[1]) => Listed(res.rows, a.name)
    /\ (pc = "executed" /\ Reached(line, "FriendsWhoPlay") /\ res.status = "report")
          => \A a \in player :
                (Befriended(a.id, line.ids[1]) /\ HasLibrary(a.id, line.ids[2]))
                    => Listed(res.rows, a.name)

\* The integer a points text stands for: digits with an optional sign.
SignedValue(text) ==
    IF text[1] = "-" THEN 0 - DecimalValue(Tail(text))
    ELSE IF text[1] = "+" THEN DecimalValue(Tail(text))
    ELSE DecimalValue(text)

\* C7: AddVictory on an existing game accepts points written with no sign,
\* with '+' or with '-', and a victory it stores is worth that integer.
C7_SignedPointsAccepted ==
    (/\ line.cmd = "AddVictory"
     /\ Len(line.texts) = 4
     /\ HasGame(DecimalValue(line.texts[1])))
        => /\ res.status \in {"ok", "Duplicate"}
           /\ res.status = "ok"
                 => \E v \in victory :
                       /\ v.game_id = DecimalValue(line.texts[1])
                       /\ v.id = DecimalValue(line.texts[2])
                       /\ v.points = SignedValue(line.texts[4])

\* C8: AddVictory V under an existing game G is a duplicate exactly when a
\* victory (G, V) is stored; otherwise it stores the victory, also when the
\* id V is in use in another game, whose victory stays.
C8_VictoryIdScopedPerGame ==
    [][(Reached(line', "AddVictory") /\ HasGame(line'.ids[1]))
        => IF HasVictory(line'.ids[1], line'.ids[2])
           THEN res'.status = "Duplicate" /\ store' = store
           ELSE /\ res'.status = "ok"
                /\ \E row \in victory' :
                      /\ row.game_id = line'.ids[1] /\ row.id = line'.ids[2]
                      /\ victory' = victory \cup {row}
                /\ UNCHANGED <<player, game, player_game, friendship, player_victory>>]_vars

C8_Witness ==
    /\ pc = "executed"
    /\ Reached(line, "AddVictory")
    /\ res.status = "ok"
    /\ \E v, w \in victory : v.id = w.id /\ v.game_id # w.game_id

\* C9: the session loop goes on after a parse error, a not-found or a
\* duplicate rejection, with the store as it was; it ends only at end of
\* input, and then without an error.
C9_LoopSurvivesErrors ==
    [][/\ (pc = "input" /\ res'.status \in {"ParseError", "NotFound", "Duplicate"})
            => (pc' = "executed" /\ store' = store)
       /\ pc = "executed" => (pc' = "input" /\ store' = store)
       /\ pc' \notin {"input", "executed"} => (pc = "input" /\ pc' = "done")]_vars

\* C10: the victory table of ComparePlayers P1 P2 G has exactly one row for
\* every victory of G, with its points and, per player, Y exactly when that
\* player has earned that victory of G, by name ascending, then points
\* descending.
C10_CompareVictoryTable ==
    (pc = "executed" /\ Reached(line, "ComparePlayers") /\ res.status = "report")
        => /\ RowsMatch(res.rows2,
                        {v \in victory : v.game_id = line.ids[3]},
                        LAMBDA v :
                           <<v.name, v.points,
                             IF <<"WinVictory", line.ids[1], line.ids[3], v.id>>
                                    \in accepted THEN "Y" ELSE "N",
                             IF <<"WinVictory", line.ids[2], line.ids[3], v.id>>
                                    \in accepted THEN "Y" ELSE "N">>)
           /\ \A i, j \in DOMAIN res.rows2 :
                 i < j => \/ NameRank(res.rows2[i][1]) < NameRank(res.rows2[j][1])
                          \/ /\ res.rows2[i][1] = res.rows2[j][1]
                             /\ res.rows2[i][2] >= res.rows2[j][2]

\* The players who have the game in their library and have won the victory
\* of that game by a WinVictory that succeeded.
EarnedByOwners(g, v) ==
    {p \in player : HasLibrary(p.id, g) /\ <<"WinVictory", p.id, g, v>> \in accepted}

\* C11: when some player has G in their library, the percentage that
\* SummarizeVictory G V reports is 100 times the number of players who have G
\* in their library and have earned victory V of G, divided by the number of
\* players who have G in their library, and so is at most 100.
C11_PercentOfOwners ==
    (/\ pc = "executed" /\ Reached(line, "SummarizeVictory")
     /\ res.status = "report")
        => /\ res.num = PercentEarned(
                            Cardinality(EarnedByOwners(line.ids[1], line.ids[2])),
                            Cardinality({pg \in player_game : pg.game_id = line.ids[1]}))
           /\ res.num <= 10000

\* The victories of a game a player has won by a WinVictory that succeeded.
EarnedVictories(p, g) ==
    {v \in victory : v.game_id = g /\ <<"WinVictory", p, g, v.id>> \in accepted}

\* C12: the games table of SummarizePlayer P has exactly one row for every
\* game in P's library, also for a game without victories and for one in
\* which P has earned nothing, with the earned/total victory counts, the
\* per-game score and the in-game name, in descending score order.
C12_SummarizePlayerGames ==
    (pc = "executed" /\ Reached(line, "SummarizePlayer") /\ res.status = "report")
        => /\ RowsMatch(res.rows2,
                        {pg \in player_game : pg.player_id = line.ids[1]},
                        LAMBDA pg :
                           <<get_game_name(pg.game_id),
                             <<Cardinality(EarnedVictories(pg.player_id, pg.game_id)),
                               Cardinality({v \in victory : v.game_id = pg.game_id})>>,
                             EarnedScore(pg.player_id, pg.game_id),
                             pg.ign>>)
           /\ \A i, j \in DOMAIN res.rows2 : i < j => res.rows2[i][3] >= res.rows2[j][3]

\* The per-game score the store holds for a player, which the reports read.
StoredScore(p, g) == SumPoints(EarnedIn(p, g))

\* The points of the stored victory (g, v).
PointsOf(g, v) == (CHOOSE x \in victory : x.game_id = g /\ x.id = v).points

\* C13: WinVictory P G V succeeds whenever P and the victory (G, V) exist and
\* P has not earned that victory of G, also when P has earned the victory of
\* the same id in another game; it raises P's score for G by the points of
\* (G, V) and leaves the score of every other player and game as it was.
C13_WinVictoryPerGame ==
    [][(/\ Reached(line', "WinVictory")
        /\ HasPlayer(line'.ids[1])
        /\ HasVictory(line'.ids[2], line'.ids[3])
        /\ CommandKey(line') \notin accepted)
        => /\ res'.status = "ok"
           /\ \A q \in 1..CrossPlayerId, h \in 1..CrossGameId :
                 StoredScore(q, h)' =
                    StoredScore(q, h)
                    + IF q = line'.ids[1] /\ h = line'.ids[2]
                      THEN PointsOf(line'.ids[2], line'.ids[3]) ELSE 0]_vars

\* Every row that refers to another refers to a stored one.
ReferentialIntegrity ==
    /\ \A v \in victory : HasGame(v.game_id)
    /\ \A pg \in player_game : HasPlayer(pg.player_id) /\ HasGame(pg.game_id)
    /\ \A f \in friendship : HasPlayer(f.player_id) /\ HasPlayer(f.friend_id)
    /\ \A pv \in player_victory :
          /\ HasPlayer(pv.player_id)
          /\ \E v \in victory : v.id = pv.victory_id

\* C14: in every state reached from the empty store every victory belongs to
\* a stored game, every library entry names a stored player and a stored
\* game, both ends of every friendship are stored players and every
\* achievement names a stored player and a stored victory; and no step removes
\* or alters a stored player, game or victory.
C14_ReferentialIntegrity ==
    /\ []ReferentialIntegrity
    /\ [][/\ player \subseteq player'
          /\ game \subseteq game'
          /\ victory \subseteq victory']_vars

C14_Witness ==
    /\ pc = "executed"
    /\ Reached(line, "WinVictory")
    /\ res.status = "ok"
    /\ player_victory # {}
    /\ victory # {}

====
